---- MODULE Spec2Model ----
(***************************************************************************)
(* Model of package req (sspencer/goal): the options constructor New, the  *)
(* classifier IsSuccess, the JSON adapter Unmarshal with its SyntaxError,  *)
(* the public operations Get/Head/Delete/Post/Put, the executor request    *)
(* and the trace formatter logger.                                         *)
(*                                                                         *)
(* Bytes are one-character strings and byte strings are sequences of them. *)
(* The HTTP transport (http.Client.Do), the response dump and the JSON     *)
(* scanner are library code the package calls; they are modelled as the    *)
(* library behaves: a body stream delivers its bytes and then ends with    *)
(* EOF or with a read error that stays (a response body keeps its error),  *)
(* and closing a stream that was read to its end does not fail.  The       *)
(* transport writes the request body on its own goroutine and may still be *)
(* reading it after Do has returned a response; its reads interleave with  *)
(* the executor's steps.                                                   *)
(* Request.timeout is handed to the transport uninterpreted; a timeout     *)
(* shows as a transport error, so the field is not a variable here.        *)
(***************************************************************************)
EXTENDS Integers, Sequences, FiniteSets, TLC

VARIABLES
    pc,      \* position of the caller / executor
    cfg,     \* the Request configuration: curl, curlHeader, skipRedirects
    call,    \* the public operation called and its arguments
    req,     \* the *http.Request built by request()
    client,  \* the http.Client built by request()
    data,    \* unread rest of the strings.Reader handed to request()
    buf,     \* the capture buffer (var buf bytes.Buffer): its unread bytes
    net,     \* what the transport did: bytes read, requests issued, redirects
    do,      \* what client.Do returned
    resp,    \* the response held by request()
    body,    \* the transport's response body stream
    copy,    \* the in-memory body DumpResponse puts in its place
    logs,    \* records handed to log.Println
    ret,     \* what request() returned
    dec,     \* Unmarshal: its input, target, result and rendered message
    cls      \* IsSuccess: its argument and result

vars == <<pc, cfg, call, req, client, data, buf, net, do, resp, body, copy, logs, ret, dec, cls>>

----------------------------------------------------------------------------
(* Bounds of the model *)

\* longest input handed to Unmarshal
MaxLen == 3

\* most redirect responses a server chain answers with in one call
\* (below the transport's own limit of ten redirects)
MaxRedirects == 2

----------------------------------------------------------------------------
(* Program constants *)

StatusOK == 200

StatusIMUsed == 226

URLEncodededContentType == "application/x-www-form-urlencoded"

----------------------------------------------------------------------------
(* Byte strings *)

\* bytes of the JSON inputs: brackets, comma, a digit, a space and a byte
\* that starts no JSON value
JSONBytes == {"[", "]", ",", "1", " ", "x"}

RECURSIVE SeqsUpTo(_, _)
SeqsUpTo(S, n) ==
    IF n = 0 THEN {<<>>}
    ELSE LET shorter == SeqsUpTo(S, n - 1)
         IN  shorter \cup {Append(s, c) : s \in {t \in shorter : Len(t) = n - 1}, c \in S}

isSpace(c) == c = " "

RECURSIVE TrimLeft(_)
TrimLeft(s) == IF s # <<>> /\ isSpace(Head(s)) THEN TrimLeft(Tail(s)) ELSE s

RECURSIVE TrimRight(_)
TrimRight(s) ==
    IF s # <<>> /\ isSpace(s[Len(s)]) THEN TrimRight(SubSeq(s, 1, Len(s) - 1)) ELSE s

\* strings.TrimSpace
TrimSpace(s) == TrimRight(TrimLeft(s))

----------------------------------------------------------------------------
(* Body streams (io.ReadCloser) *)

\* a stream delivers data and then ends: with EOF, or with a read error when
\* fail is set; closed counts the calls of Close
Stream(d, f) == [data |-> d, fail |-> f, closed |-> 0]

NoStream == Stream(<<>>, FALSE)

\* ioutil.ReadAll: everything up to the end of the stream, and the read error
ReadAll(s) == [bytes |-> s.data, err |-> s.fail, stream |-> [s EXCEPT !.data = <<>>]]

Close(s) == [s EXCEPT !.closed = @ + 1]

----------------------------------------------------------------------------
(* Errors *)

NoErr == [kind |-> "none", code |-> 0, text |-> <<>>]

\* DNS, connection, timeout
TransportErr == [kind |-> "transport", code |-> 0, text |-> <<>>]

\* NewRequest: bad URL
RequestErr == [kind |-> "newrequest", code |-> 0, text |-> <<>>]

\* errors.New("Skip redirects"), wrapped by the client
SkipErr == [kind |-> "Skip redirects", code |-> 0, text |-> <<>>]

\* the error of a failed body read
ReadErr == [kind |-> "read", code |-> 0, text |-> <<>>]

\* fmt.Errorf("Error making HTTP request.  HTTP Status %d: %v", code, body)
StatusErr(code, text) == [kind |-> "status", code |-> code, text |-> text]

----------------------------------------------------------------------------
(* Outcome classifier *)

\* a faulty classifier: the upper end of the range left out
IsSuccessExclusive(statusCode) == statusCode >= StatusOK /\ statusCode < StatusIMUsed

\* func IsSuccess(statusCode int) bool
IsSuccess(statusCode) == statusCode >= StatusOK /\ statusCode <= StatusIMUsed

\* the executor's own test of resp.StatusCode
ExecSuccess(statusCode) == statusCode >= StatusOK /\ statusCode <= StatusIMUsed

----------------------------------------------------------------------------
(* The JSON scanner behind json.Unmarshal and json.Indent, on JSONBytes:   *)
(* values are arrays and numbers of the digit 1.  step is the scanner's    *)
(* step function, depth the length of its parse-state stack (arrays        *)
(* only), bytes the count of bytes consumed.                               *)

ScanInit == [step |-> "beginValue", depth |-> 0, endTop |-> FALSE, err |-> FALSE, bytes |-> 0]

ScanError(s) == [s EXCEPT !.step = "error", !.err = TRUE]

stateEndTop(s, c) == IF isSpace(c) THEN s ELSE ScanError(s)

\* popParseState
PopParseState(s) ==
    IF s.depth - 1 = 0
    THEN [s EXCEPT !.depth = 0, !.step = "endTop", !.endTop = TRUE]
    ELSE [s EXCEPT !.depth = @ - 1, !.step = "endValue"]

stateEndValue(s, c) ==
    IF s.depth = 0
    THEN stateEndTop([s EXCEPT !.step = "endTop", !.endTop = TRUE], c)
    ELSE IF isSpace(c) THEN [s EXCEPT !.step = "endValue"]
    ELSE IF c = "," THEN [s EXCEPT !.step = "beginValue"]
    ELSE IF c = "]" THEN PopParseState(s)
    ELSE ScanError(s)

stateBeginValue(s, c) ==
    IF isSpace(c) THEN s
    ELSE IF c = "[" THEN [s EXCEPT !.step = "beginValueOrEmpty", !.depth = @ + 1]
    ELSE IF c = "1" THEN [s EXCEPT !.step = "state1"]
    ELSE ScanError(s)

stateBeginValueOrEmpty(s, c) ==
    IF isSpace(c) THEN s
    ELSE IF c = "]" THEN stateEndValue(s, c)
    ELSE stateBeginValue(s, c)

state1(s, c) == IF c = "1" THEN s ELSE stateEndValue(s, c)

ScanStep(s, c) ==
    CASE s.step = "beginValue"        -> stateBeginValue(s, c)
      [] s.step = "beginValueOrEmpty" -> stateBeginValueOrEmpty(s, c)
      [] s.step = "state1"            -> state1(s, c)
      [] s.step = "endValue"          -> stateEndValue(s, c)
      [] s.step = "endTop"            -> stateEndTop(s, c)
      [] OTHER                        -> ScanError(s)

\* scanner.eof: the input is complete when the top-level value has ended,
\* if need be after one more space
ScanEOF(s) ==
    IF s.err THEN s
    ELSE IF s.endTop THEN s
    ELSE LET t == ScanStep(s, " ")
         IN  IF t.endTop /\ ~t.err THEN t ELSE [s EXCEPT !.err = TRUE]

\* checkValid: ok, or the Offset of the *json.SyntaxError, which is the count
\* of bytes consumed when the scanner gave up
RECURSIVE CheckFrom(_, _, _)
CheckFrom(s, input, i) ==
    IF i > Len(input)
    THEN [ok |-> ~ScanEOF(s).err, offset |-> s.bytes]
    ELSE LET t == ScanStep([s EXCEPT !.bytes = @ + 1], input[i])
         IN  IF t.err THEN [ok |-> FALSE, offset |-> t.bytes]
             ELSE CheckFrom(t, input, i + 1)

CheckValid(input) == CheckFrom(ScanInit, input, 1)

\* the decoded value: the input's tokens without the insignificant spaces
Decoded(input) == SelectSeq(input, LAMBDA c : ~isSpace(c))

\* the kind of a valid input's value
KindOf(input) == IF Head(Decoded(input)) = "[" THEN "array" ELSE "number"

\* targets: an interface{} variable (takes any value) or a number
TargetKinds == {"any", "number"}

Unset == <<"unset">>

\* json.Unmarshal(data, &v)
JSONUnmarshal(input, target) ==
    LET v == CheckValid(input)
    IN  IF ~v.ok
        THEN [err |-> "syntax", offset |-> v.offset, target |-> target]
        ELSE IF target.kind = "number" /\ KindOf(input) # "number"
        THEN [err |-> "type", offset |-> 0, target |-> target]
        ELSE [err |-> "none", offset |-> 0, target |-> [target EXCEPT !.val = Decoded(input)]]

----------------------------------------------------------------------------
(* JSON decode adapter *)

NoDecodeErr == [kind |-> "none", wrapped |-> FALSE, offset |-> 0, input |-> <<>>]

\* a faulty Unmarshal: the stream is not closed when the read fails
UnmarshalLeakOnReadError(stream, target) ==
    LET r == ReadAll(stream)
        j == JSONUnmarshal(r.bytes, target)
    IN  IF r.err
        THEN [stream |-> r.stream, target |-> target,
              err |-> [NoDecodeErr EXCEPT !.kind = "read"]]
        ELSE [stream |-> Close(r.stream), target |-> j.target,
              err |-> IF j.err = "syntax"
                      THEN [kind |-> "syntax", wrapped |-> TRUE, offset |-> j.offset, input |-> r.bytes]
                      ELSE [NoDecodeErr EXCEPT !.kind = j.err]]

\* func Unmarshal(body io.ReadCloser, v interface{}) error
Unmarshal(stream, target) ==
    LET r == ReadAll(stream)
        j == JSONUnmarshal(r.bytes, target)
    IN  IF r.err
        THEN [stream |-> Close(r.stream), target |-> target,
              err |-> [NoDecodeErr EXCEPT !.kind = "read"]]
        ELSE [stream |-> Close(r.stream), target |-> j.target,
              err |-> IF j.err = "syntax"
                      THEN [kind |-> "syntax", wrapped |-> TRUE, offset |-> j.offset, input |-> r.bytes]
                      ELSE [NoDecodeErr EXCEPT !.kind = j.err]]

\* func (e SyntaxError) Error() string: the slice e.input[e.Offset-1:] is
\* defined for 0 <= Offset-1 <= len(input) and panics otherwise
SyntaxErrorText(e) ==
    IF e.offset - 1 >= 0 /\ e.offset - 1 <= Len(e.input)
    THEN [panic |-> FALSE, near |-> SubSeq(e.input, e.offset, Len(e.input))]
    ELSE [panic |-> TRUE, near |-> <<>>]

----------------------------------------------------------------------------
(* Form values and their encoding *)

Keys == {"a", "b"}

\* the keys in sorted order, as url.Values.Encode visits them
KeyOrder == <<"a", "b">>

Vals == {"1", " "}

\* url.Values with at most one value for a key
FormValues == UNION {[K -> Vals] : K \in SUBSET Keys}

\* url.QueryEscape of one byte: a space becomes a plus sign
QueryEscape(c) == IF c = " " THEN "+" ELSE c

RECURSIVE EncodeFrom(_, _, _)
EncodeFrom(v, i, out) ==
    IF i > Len(KeyOrder) THEN out
    ELSE LET k == KeyOrder[i]
         IN  IF k \in DOMAIN v
             THEN EncodeFrom(v, i + 1,
                      (IF out = <<>> THEN <<>> ELSE out \o <<"&">>)
                          \o <<QueryEscape(k), "=", QueryEscape(v[k])>>)
             ELSE EncodeFrom(v, i + 1, out)

\* url.Values.Encode
Encode(v) == EncodeFrom(v, 1, <<>>)

NoValues == <<>>

----------------------------------------------------------------------------
(* The request, the client and the transport's redirect policy *)

NoReq == [method |-> "", contentType |-> "", hasBody |-> FALSE, payload |-> <<>>]

\* a faulty client: the hook is never installed
ClientWithoutHook(c) == [checkRedirect |-> "default"]

\* client := &http.Client{Timeout: c.timeout}, and the CheckRedirect hook
\* installed when skipRedirects is set
NewClient(c) == [checkRedirect |-> IF c.skipRedirects THEN "refuse" ELSE "default"]

\* what the policy answers before a redirect is followed: the hook always
\* refuses; the default policy allows (fewer than ten redirects here)
CheckRedirect(cl) == IF cl.checkRedirect = "refuse" THEN SkipErr ELSE NoErr

\* status codes the server answers with; 302 and 307 come with a Location
StatusCodes == {199, 200, 226, 227, 302, 307, 404}

\* net/http redirectBehavior: 302 is always followed, without the body;
\* 307 keeps the body and is followed only when the request has none
\* (the tee reader's body cannot be replayed)
ShouldRedirect(status, r) ==
    \/ status = 302
    \/ status = 307 /\ ~r.hasBody

\* the method of the request to the redirect target
RedirectMethod(status, method) ==
    IF status = 302 /\ method \notin {"GET", "HEAD"} THEN "GET" ELSE method

\* response bodies: empty, plain text, JSON
Bodies == {<<>>, <<"n", "f">>, <<"[", "1", "]">>}

RespStreams == {Stream(b, f) : b \in Bodies, f \in BOOLEAN}

\* a faulty tee: the byte is handed on but not written to the buffer
TeeReadNoCopy(src, buffer) == [src |-> Tail(src), buf |-> buffer, out |-> Head(src)]

\* io.TeeReader: one byte read from src is written to the buffer and handed
\* to the reader
TeeRead(src, buffer) == [src |-> Tail(src), buf |-> Append(buffer, Head(src)), out |-> Head(src)]

----------------------------------------------------------------------------
(* Trace formatter *)

NoTrace == [flags |-> <<>>, method |-> "", headers |-> <<>>,
            data |-> [present |-> FALSE, text |-> <<>>], url |-> "",
            response |-> [present |-> FALSE, head |-> "", pretty |-> FALSE, body |-> <<>>]]

\* a faulty dump: the drained body is left in resp.Body
DumpResponseNoRestore(stream) ==
    LET r == ReadAll(stream)
    IN  IF r.err
        THEN [ok |-> FALSE, dump |-> <<>>, body |-> r.stream, copy |-> NoStream, ref |-> "orig"]
        ELSE [ok |-> TRUE, dump |-> r.bytes, body |-> Close(r.stream),
              copy |-> NoStream, ref |-> "orig"]

\* httputil.DumpResponse(resp, true): drains the body; when that fails the
\* partly read body stays in resp.Body, otherwise the body is closed and
\* resp.Body becomes an in-memory reader over the same bytes
DumpResponse(stream) ==
    LET r == ReadAll(stream)
    IN  IF r.err
        THEN [ok |-> FALSE, dump |-> <<>>, body |-> r.stream, copy |-> NoStream, ref |-> "orig"]
        ELSE [ok |-> TRUE, dump |-> r.bytes, body |-> Close(r.stream),
              copy |-> Stream(r.bytes, FALSE), ref |-> "copy"]

\* func indentJSON(b []byte) ([]byte, error): json.Indent fails where the
\* scanner does
indentJSON(b) == [err |-> ~CheckValid(b).ok, src |-> b]

\* func (c *Request) logger(r, resp, data)
logger(c, r, stream, buffer) ==
    IF ~c.curl /\ ~c.curlHeader
    THEN [emit |-> FALSE, record |-> NoTrace, body |-> stream, copy |-> NoStream,
          ref |-> "orig", buf |-> buffer]
    ELSE LET str == buffer
             d   == DumpResponse(stream)
             j   == indentJSON(d.dump)
         IN  [emit   |-> TRUE,
              record |-> [flags   |-> IF c.skipRedirects THEN <<"-sS", "-L">> ELSE <<"-sS">>,
                          method  |-> r.method,
                          headers |-> IF r.contentType # ""
                                      THEN <<<<"Content-Type", r.contentType>>>>
                                      ELSE <<>>,
                          data    |-> IF str # <<>>
                                      THEN [present |-> TRUE, text |-> TrimSpace(str)]
                                      ELSE [present |-> FALSE, text |-> <<>>],
                          url     |-> "u",
                          response |-> IF d.ok
                                       THEN [present |-> TRUE,
                                             head |-> IF c.curlHeader THEN "header" ELSE "status",
                                             pretty |-> ~j.err, body |-> d.dump]
                                       ELSE NoTrace.response],
              body |-> d.body, copy |-> d.copy, ref |-> d.ref,
              buf  |-> <<>>]

----------------------------------------------------------------------------
(* Request executor: the part of request() after client.Do *)

\* a faulty trace test: the header flag is ignored
TraceOnBodyFlagOnly(c) == c.curl

\* if c.curl || c.curlHeader
TraceEnabled(c) == c.curl \/ c.curlHeader

\* the trace step: logger when tracing is on
TraceStep(c, r, stream, buffer) ==
    IF TraceEnabled(c)
    THEN logger(c, r, stream, buffer)
    ELSE [emit |-> FALSE, record |-> NoTrace, body |-> stream, copy |-> NoStream,
          ref |-> "orig", buf |-> buffer]

\* a faulty failure path: the deferred Close is missing
DrainNoClose(status, s) ==
    LET r == ReadAll(s)
    IN  [stream |-> r.stream,
         err |-> IF r.err THEN ReadErr ELSE StatusErr(status, r.bytes)]

\* defer resp.Body.Close(); ioutil.ReadAll(resp.Body); the error returned
Drain(status, s) ==
    LET r == ReadAll(s)
    IN  [stream |-> Close(r.stream),
         err |-> IF r.err THEN ReadErr ELSE StatusErr(status, r.bytes)]

\* what the caller sees of a call: the two results, and what it can still
\* read from the returned response's body
Seen(hasResp, err, s) ==
    [hasResp |-> hasResp, err |-> err,
     readable |-> IF hasResp THEN ReadAll(s).bytes ELSE <<>>,
     readErr  |-> IF hasResp THEN ReadAll(s).err ELSE FALSE]

\* the result of request() for a transport exchange (status, stream) under
\* configuration c
Outcome(c, r, status, stream, buffer) ==
    LET t   == TraceStep(c, r, stream, buffer)
        cur == IF t.ref = "copy" THEN t.copy ELSE t.body
    IN  IF ExecSuccess(status)
        THEN Seen(TRUE, NoErr, cur)
        ELSE Seen(FALSE, Drain(status, cur).err, cur)

----------------------------------------------------------------------------
(* Initial state: New() before its options are applied *)

NoDo == [returned |-> FALSE, hasResp |-> FALSE, err |-> NoErr, status |-> 0, stream |-> NoStream]

NoResp == [present |-> FALSE, status |-> 0, ref |-> "orig"]

NoRet == [returned |-> FALSE, hasResp |-> FALSE, err |-> NoErr]

NoText == [done |-> FALSE, panic |-> FALSE, near |-> <<>>]

NoDec == [called |-> FALSE, in |-> NoStream, target0 |-> [kind |-> "any", val |-> Unset],
          stream |-> NoStream, target |-> [kind |-> "any", val |-> Unset],
          err |-> NoDecodeErr, text |-> NoText]

NoCls == [called |-> FALSE, code |-> 0, out |-> FALSE]

NoNet == [wire |-> <<>>, sent |-> <<>>, redirects |-> 0]

Init ==
    /\ pc = "new"
    /\ cfg = [curl |-> FALSE, curlHeader |-> FALSE, skipRedirects |-> FALSE]
    /\ call = [op |-> "", values |-> NoValues]
    /\ req = NoReq
    /\ client = [checkRedirect |-> "default"]
    /\ data = <<>>
    /\ buf = <<>>
    /\ net = NoNet
    /\ do = NoDo
    /\ resp = NoResp
    /\ body = NoStream
    /\ copy = NoStream
    /\ logs = <<>>
    /\ ret = NoRet
    /\ dec = NoDec
    /\ cls = NoCls

----------------------------------------------------------------------------
(* New: the options, applied in the order given *)

\* func Curl(b bool) RequestFunc
Curl ==
    /\ pc = "new"
    /\ \E b \in BOOLEAN : cfg' = [cfg EXCEPT !.curl = b]
    /\ UNCHANGED <<pc, call, req, client, data, buf, net, do, resp, body, copy, logs, ret, dec, cls>>

\* func CurlHeader(b bool) RequestFunc
CurlHeader ==
    /\ pc = "new"
    /\ \E b \in BOOLEAN : cfg' = [cfg EXCEPT !.curlHeader = b]
    /\ UNCHANGED <<pc, call, req, client, data, buf, net, do, resp, body, copy, logs, ret, dec, cls>>

\* func SkipRedirects(b bool) RequestFunc
SkipRedirects ==
    /\ pc = "new"
    /\ \E b \in BOOLEAN : cfg' = [cfg EXCEPT !.skipRedirects = b]
    /\ UNCHANGED <<pc, call, req, client, data, buf, net, do, resp, body, copy, logs, ret, dec, cls>>

\* New returns; the configuration is read-only from here on
New ==
    /\ pc = "new"
    /\ pc' = "idle"
    /\ UNCHANGED <<cfg, call, req, client, data, buf, net, do, resp, body, copy, logs, ret, dec, cls>>

----------------------------------------------------------------------------
(* The public operations and request() up to client.Do *)

\* request(method, url, contentType, data) up to the call of client.Do;
\* urlOK is whether http.NewRequest accepts the URL
request(op, v, method, contentType, hasData, urlOK) ==
    /\ pc = "idle"
    /\ call' = [op |-> op, values |-> v]
    /\ IF urlOK
       THEN /\ req' = [method |-> method, contentType |-> contentType, hasBody |-> hasData,
                       payload |-> IF hasData THEN Encode(v) ELSE <<>>]
            /\ data' = IF hasData THEN Encode(v) ELSE <<>>
            /\ client' = NewClient(cfg)
            /\ net' = [wire |-> <<>>, sent |-> <<method>>, redirects |-> 0]
            /\ pc' = "do"
            /\ UNCHANGED ret
       ELSE /\ ret' = [returned |-> TRUE, hasResp |-> FALSE, err |-> RequestErr]
            /\ pc' = "done"
            /\ UNCHANGED <<req, data, client, net>>
    /\ buf' = <<>>
    /\ UNCHANGED <<cfg, do, resp, body, copy, logs, dec, cls>>

\* func (c *Request) Get(url string)
Get == \E urlOK \in BOOLEAN : request("Get", NoValues, "GET", "", FALSE, urlOK)

\* func (c *Request) Head(url string); Head names the first element of a
\* sequence here, hence the longer name
HeadRequest == \E urlOK \in BOOLEAN : request("Head", NoValues, "HEAD", "", FALSE, urlOK)

\* func (c *Request) Delete(url string)
Delete == \E urlOK \in BOOLEAN : request("Delete", NoValues, "DELETE", "", FALSE, urlOK)

\* func (c *Request) Post(url string, values url.Values)
Post ==
    \E urlOK \in BOOLEAN, v \in FormValues :
        request("Post", v, "POST", URLEncodededContentType, TRUE, urlOK)

\* func (c *Request) Put(url string, values url.Values): the method handed
\* to request is http.MethodPost
Put ==
    \E urlOK \in BOOLEAN, v \in FormValues :
        request("Put", v, "POST", URLEncodededContentType, TRUE, urlOK)

----------------------------------------------------------------------------
(* client.Do: the transport *)

\* the transport reads one more byte of the request body through the tee:
\* before Do returns, or after it has returned a response while the
\* executor goes on
TransportReadBody ==
    /\ \/ pc = "do"
       \/ pc \in {"did", "classify"} /\ do.err = NoErr
    /\ req.hasBody
    /\ Len(net.sent) = 1
    /\ data # <<>>
    /\ LET t == TeeRead(data, buf)
       IN  /\ data' = t.src
           /\ buf' = t.buf
           /\ net' = [net EXCEPT !.wire = Append(@, t.out)]
    /\ UNCHANGED <<pc, cfg, call, req, client, do, resp, body, copy, logs, ret, dec, cls>>

\* DNS, connection or timeout failure: Do returns an error and no response
TransportError ==
    /\ pc = "do"
    /\ do' = [returned |-> TRUE, hasResp |-> FALSE, err |-> TransportErr,
              status |-> 0, stream |-> NoStream]
    /\ pc' = "did"
    /\ UNCHANGED <<cfg, call, req, client, data, buf, net, resp, body, copy, logs, ret, dec, cls>>

\* the server answers with a response the client does not redirect on:
\* Do returns it
TransportResponse ==
    /\ pc = "do"
    /\ \E status \in StatusCodes, stream \in RespStreams :
        /\ ~ShouldRedirect(status, req)
        /\ do' = [returned |-> TRUE, hasResp |-> TRUE, err |-> NoErr,
                  status |-> status, stream |-> stream]
        /\ resp' = [present |-> TRUE, status |-> status, ref |-> "orig"]
        /\ body' = stream
    /\ pc' = "did"
    /\ UNCHANGED <<cfg, call, req, client, data, buf, net, copy, logs, ret, dec, cls>>

\* the server answers with a redirect and the policy refuses it: Do returns
\* the redirect response with its body closed, and the policy's error
RedirectRefused ==
    /\ pc = "do"
    /\ \E status \in StatusCodes :
        /\ ShouldRedirect(status, req)
        /\ CheckRedirect(client) # NoErr
        /\ do' = [returned |-> TRUE, hasResp |-> TRUE, err |-> CheckRedirect(client),
                  status |-> status, stream |-> NoStream]
    /\ body' = Close(NoStream)
    /\ net' = [net EXCEPT !.redirects = @ + 1]
    /\ pc' = "did"
    /\ UNCHANGED <<cfg, call, req, client, data, buf, resp, copy, logs, ret, dec, cls>>

\* the server answers with a redirect and the policy allows it: the client
\* requests the redirect target
RedirectFollowed ==
    /\ pc = "do"
    /\ net.redirects < MaxRedirects
    /\ \E status \in StatusCodes :
        /\ ShouldRedirect(status, req)
        /\ CheckRedirect(client) = NoErr
        /\ net' = [net EXCEPT !.redirects = @ + 1,
                              !.sent = Append(@, RedirectMethod(status, net.sent[Len(net.sent)]))]
    /\ UNCHANGED <<pc, cfg, call, req, client, data, buf, do, resp, body, copy, logs, ret, dec, cls>>

----------------------------------------------------------------------------
(* request() after client.Do *)

\* if err != nil { return nil, err }
ReturnTransportError ==
    /\ pc = "did"
    /\ do.err # NoErr
    /\ ret' = [returned |-> TRUE, hasResp |-> FALSE, err |-> do.err]
    /\ pc' = "done"
    /\ UNCHANGED <<cfg, call, req, client, data, buf, net, do, resp, body, copy, logs, dec, cls>>

\* if c.curl || c.curlHeader { c.logger(req, resp, &buf) }
Trace ==
    /\ pc = "did"
    /\ do.err = NoErr
    /\ LET t == TraceStep(cfg, req, body, buf)
       IN  /\ logs' = IF t.emit THEN Append(logs, t.record) ELSE logs
           /\ body' = t.body
           /\ copy' = t.copy
           /\ resp' = [resp EXCEPT !.ref = t.ref]
           /\ buf' = t.buf
    /\ pc' = "classify"
    /\ UNCHANGED <<cfg, call, req, client, data, net, do, ret, dec, cls>>

\* resp.Body as the executor and the caller find it
CurBody == IF resp.ref = "copy" THEN copy ELSE body

\* status in the success range: return resp, nil
ReturnSuccess ==
    /\ pc = "classify"
    /\ ExecSuccess(resp.status)
    /\ ret' = [returned |-> TRUE, hasResp |-> TRUE, err |-> NoErr]
    /\ pc' = "done"
    /\ UNCHANGED <<cfg, call, req, client, data, buf, net, do, resp, body, copy, logs, dec, cls>>

\* NOT OK: read the body, release it, return the error
ReturnFailure ==
    /\ pc = "classify"
    /\ ~ExecSuccess(resp.status)
    /\ LET d == Drain(resp.status, CurBody)
       IN  /\ IF resp.ref = "copy"
              THEN copy' = d.stream /\ UNCHANGED body
              ELSE body' = d.stream /\ UNCHANGED copy
           /\ ret' = [returned |-> TRUE, hasResp |-> FALSE, err |-> d.err]
    /\ pc' = "done"
    /\ UNCHANGED <<cfg, call, req, client, data, buf, net, do, resp, logs, dec, cls>>

----------------------------------------------------------------------------
(* The classifier and the decode adapter, called on their own *)

\* status codes handed to IsSuccess
ClassifyCodes == StatusCodes \cup {0, 201, 225, 300, 500}

CallIsSuccess ==
    /\ pc = "idle"
    /\ \E code \in ClassifyCodes : cls' = [called |-> TRUE, code |-> code, out |-> IsSuccess(code)]
    /\ pc' = "classified"
    /\ UNCHANGED <<cfg, call, req, client, data, buf, net, do, resp, body, copy, logs, ret, dec>>

CallUnmarshal ==
    /\ pc = "idle"
    /\ \E input \in SeqsUpTo(JSONBytes, MaxLen), f \in BOOLEAN, k \in TargetKinds :
          LET st == Stream(input, f)
              tg == [kind |-> k, val |-> Unset]
              u  == Unmarshal(st, tg)
          IN  dec' = [called |-> TRUE, in |-> st, target0 |-> tg, stream |-> u.stream,
                      target |-> u.target, err |-> u.err, text |-> NoText]
    /\ pc' = "decoded"
    /\ UNCHANGED <<cfg, call, req, client, data, buf, net, do, resp, body, copy, logs, ret, cls>>

\* the caller prints a SyntaxError: Error() is called
CallError ==
    /\ pc = "decoded"
    /\ dec.err.wrapped
    /\ LET t == SyntaxErrorText(dec.err)
       IN  dec' = [dec EXCEPT !.text = [done |-> TRUE, panic |-> t.panic, near |-> t.near]]
    /\ pc' = "rendered"
    /\ UNCHANGED <<cfg, call, req, client, data, buf, net, do, resp, body, copy, logs, ret, cls>>

----------------------------------------------------------------------------

Next ==
    \/ Curl
    \/ CurlHeader
    \/ SkipRedirects
    \/ New
    \/ Get
    \/ HeadRequest
    \/ Delete
    \/ Post
    \/ Put
    \/ TransportReadBody
    \/ TransportError
    \/ TransportResponse
    \/ RedirectRefused
    \/ RedirectFollowed
    \/ ReturnTransportError
    \/ Trace
    \/ ReturnSuccess
    \/ ReturnFailure
    \/ CallIsSuccess
    \/ CallUnmarshal
    \/ CallError

Spec == Init /\ [][Next]_vars

----------------------------------------------------------------------------
(* Properties *)

Range(f) == {f[i] : i \in DOMAIN f}

\* client.Do has returned a response and no error
Exchanged == do.returned /\ do.hasResp /\ do.err = NoErr

\* the configuration with both trace flags cleared
Untraced(c) == [c EXCEPT !.curl = FALSE, !.curlHeader = FALSE]

\* C1, as claimed: after an exchange that returned a response the executor
\* returns exactly one of response and error; on a status in [200,226] the
\* response, no error, and the body not released; otherwise no response and
\* an error with the status code and the full body text, the body read to
\* its end and released exactly once.
C1_ResponseOrStatusError ==
    (pc = "done" /\ Exchanged) =>
        /\ ret.hasResp # (ret.err # NoErr)
        /\ (do.status >= 200 /\ do.status <= 226) =>
              /\ ret.hasResp /\ ret.err = NoErr
              /\ body.closed = 0 /\ CurBody.closed = 0
        /\ ~(do.status >= 200 /\ do.status <= 226) =>
              /\ ~ret.hasResp
              /\ ret.err = StatusErr(do.status, do.stream.data)
              /\ body.data = <<>> /\ body.closed = 1

\* C1, amended: exactly one of response and error.  On a status in
\* [200,226]: the response, no error, and the body the response carries is
\* not released; untraced it is the transport's untouched stream, traced the
\* transport's stream has been read by the trace and, when that read
\* succeeded, released once and replaced by a copy of the same bytes.
\* Otherwise: no response, the transport's stream read to its end and
\* released exactly once, and the error is the status error with the full
\* body text when the body could be read and the read error when not.
C1_ResponseOrError ==
    (pc = "done" /\ Exchanged) =>
        /\ ret.hasResp # (ret.err # NoErr)
        /\ (do.status >= 200 /\ do.status <= 226) =>
              /\ ret.hasResp /\ ret.err = NoErr
              /\ CurBody.closed = 0
              /\ logs = <<>> => resp.ref = "orig" /\ body = do.stream
              /\ (logs # <<>> /\ ~do.stream.fail) =>
                    /\ resp.ref = "copy" /\ copy = Stream(do.stream.data, FALSE)
                    /\ body.data = <<>> /\ body.closed = 1
              /\ (logs # <<>> /\ do.stream.fail) =>
                    resp.ref = "orig" /\ body.data = <<>> /\ body.closed = 0
        /\ ~(do.status >= 200 /\ do.status <= 226) =>
              /\ ~ret.hasResp
              /\ body.data = <<>> /\ body.closed = 1
              /\ CurBody.data = <<>> /\ CurBody.closed = 1
              /\ ret.err = IF do.stream.fail THEN ReadErr
                           ELSE StatusErr(do.status, do.stream.data)

\* a failure status whose body reads to the end: the status error is returned
C1_Witness ==
    /\ pc = "done" /\ Exchanged
    /\ do.status = 404 /\ do.stream = Stream(<<"n", "f">>, FALSE)
    /\ ret = [returned |-> TRUE, hasResp |-> FALSE, err |-> StatusErr(404, <<"n", "f">>)]
    /\ body.closed = 1

C3_FollowFlagIffNotSkipping ==
    \A i \in DOMAIN logs : ("-L" \in Range(logs[i].flags)) <=> ~cfg.skipRedirects

\* the HTTP method an operation is named for
MethodNamed(op) ==
    CASE op = "Get"    -> "GET"
      [] op = "Head"   -> "HEAD"
      [] op = "Delete" -> "DELETE"
      [] op = "Post"   -> "POST"
      [] op = "Put"    -> "PUT"
      [] OTHER         -> ""

\* C4, as claimed: the request an operation issues has the method it is
\* named for; Get/Head/Delete send no body and no content type, Post/Put the
\* encoded values with the form content type.
C4_MethodAsNamed ==
    net.sent # <<>> =>
        /\ req.method = MethodNamed(call.op) /\ net.sent[1] = MethodNamed(call.op)
        /\ call.op \in {"Get", "Head", "Delete"} =>
              ~req.hasBody /\ req.contentType = "" /\ req.payload = <<>>
        /\ call.op \in {"Post", "Put"} =>
              /\ req.hasBody /\ req.contentType = URLEncodededContentType
              /\ req.payload = Encode(call.values)

\* C5: no record before client.Do has returned a response; with a trace flag
\* set exactly one record is in the sink when the status is classified and
\* when the executor has returned, for any status; with no flag set, or
\* after a transport error, none.
C5_TraceOnceBeforeClassify ==
    /\ pc \in {"new", "idle", "do", "did"} => logs = <<>>
    /\ pc = "classify" => Len(logs) = IF cfg.curl \/ cfg.curlHeader THEN 1 ELSE 0
    /\ pc = "done" =>
          Len(logs) = IF Exchanged /\ (cfg.curl \/ cfg.curlHeader) THEN 1 ELSE 0

\* header tracing alone, a failure status, the record already in the sink
\* when the status is about to be classified
C5_Witness ==
    /\ pc = "classify" /\ cfg.curlHeader /\ ~cfg.curl
    /\ ~ExecSuccess(resp.status) /\ Len(logs) = 1

\* C6: an error of the transport call is returned as it is, with no
\* response; the redirect hook is installed exactly when skipRedirects is
\* set; with it every redirect the client would follow ends the call with
\* the hook's error and the target is never requested; without it every such
\* redirect is followed.
C6_TransportErrorsAndRedirects ==
    /\ (pc = "done" /\ do.returned /\ do.err # NoErr) =>
          ~ret.hasResp /\ ret.err = do.err
    /\ net.sent # <<>> =>
          /\ (client.checkRedirect = "refuse") <=> cfg.skipRedirects
          /\ cfg.skipRedirects =>
                /\ Len(net.sent) = 1 /\ net.redirects <= 1
                /\ net.redirects = 1 => do.returned /\ do.err = SkipErr
                /\ (net.redirects = 1 /\ pc = "done") => ~ret.hasResp /\ ret.err = SkipErr
          /\ ~cfg.skipRedirects =>
                Len(net.sent) = net.redirects + 1 /\ do.err # SkipErr

\* skipRedirects set, a redirect answered, the call over with the hook's error
C6_Witness ==
    /\ pc = "done" /\ cfg.skipRedirects /\ net.redirects = 1
    /\ ret = [returned |-> TRUE, hasResp |-> FALSE, err |-> SkipErr]

\* C7, as claimed: a SyntaxError returned by Unmarshal has
\* 1 <= Offset <= len(input), so its message is defined and starts with
\* byte Offset-1 of the input.
C7_OffsetInInput ==
    /\ dec.err.wrapped => 1 <= dec.err.offset /\ dec.err.offset <= Len(dec.err.input)
    /\ dec.text.done =>
          /\ ~dec.text.panic
          /\ dec.text.near # <<>> /\ dec.text.near[1] = dec.in.data[dec.err.offset]

\* C8: Unmarshal closes the stream exactly once on every path; a read
\* failure is returned as it is and the target is left as it was; a syntax
\* failure is returned wrapped with the decoder's offset and the whole
\* input; a type failure is returned unwrapped; a success returns no error.
C8_UnmarshalPaths ==
    dec.called =>
        LET v == CheckValid(dec.in.data)
            mismatch == dec.target0.kind = "number" /\ KindOf(dec.in.data) # "number"
        IN  /\ dec.stream.closed = 1
            /\ dec.in.fail =>
                  /\ dec.err.kind = "read" /\ ~dec.err.wrapped
                  /\ dec.target = dec.target0
            /\ (~dec.in.fail /\ ~v.ok) =>
                  dec.err = [kind |-> "syntax", wrapped |-> TRUE,
                             offset |-> v.offset, input |-> dec.in.data]
            /\ (~dec.in.fail /\ v.ok /\ mismatch) =>
                  dec.err.kind = "type" /\ ~dec.err.wrapped
            /\ (~dec.in.fail /\ v.ok /\ ~mismatch) =>
                  dec.err = NoDecodeErr /\ dec.target.val # Unset

\* a stream whose read fails: closed once, the read error, the target untouched
C8_Witness ==
    /\ pc = "decoded" /\ dec.called /\ dec.in.fail /\ dec.in.data # <<>>
    /\ dec.stream.closed = 1 /\ dec.err.kind = "read" /\ dec.target.val = Unset

\* the data clause of a trace: the trimmed bytes the transport read, or none
DataClauseOf(wire) ==
    IF wire # <<>> THEN [present |-> TRUE, text |-> TrimSpace(wire)]
    ELSE [present |-> FALSE, text |-> <<>>]

\* C9, as claimed: in a call with a body the capture buffer holds, at every
\* point, exactly the bytes the transport has read so far, those bytes are
\* the body's own, and the data clause shows them trimmed (none when empty).
C9_CaptureEqualsWire ==
    req.hasBody =>
        /\ buf = net.wire
        /\ net.wire \o data = req.payload
        /\ \A i \in DOMAIN logs : logs[i].data = DataClauseOf(net.wire)

\* C9, amended: the capture buffer holds exactly the bytes the transport has
\* read so far at every point up to the trace; the trace formatter takes the
\* bytes captured until then out of the buffer, its data clause shows exactly
\* those, trimmed (none when there are none), and from then on the buffer
\* holds only the bytes the transport reads later.  The bytes delivered to
\* the transport are the body's own.
C9_CaptureUntilTrace ==
    req.hasBody =>
        /\ net.wire \o data = req.payload
        /\ logs = <<>> => buf = net.wire
        /\ \A i \in DOMAIN logs :
              \E k \in 0..Len(net.wire) :
                  /\ logs[i].data = DataClauseOf(SubSeq(net.wire, 1, k))
                  /\ buf = SubSeq(net.wire, k + 1, Len(net.wire))

\* a traced call whose whole body was read before the trace: the data clause
\* shows it and the buffer is empty afterwards
C9_Witness ==
    /\ req.hasBody /\ Len(logs) = 1
    /\ net.wire = <<"a", "=", "+", "&", "b", "=", "1">>
    /\ logs[1].data = [present |-> TRUE, text |-> net.wire]
    /\ buf = <<>>

\* C10, as claimed: what the caller sees of a call (response or not, the
\* error, the bytes still readable from the response body) is what the same
\* exchange gives with both trace flags cleared, also when the stream fails.
C10_TraceInvisible ==
    (pc = "done" /\ Exchanged) =>
        Seen(ret.hasResp, ret.err, CurBody)
            = Outcome(Untraced(cfg), req, do.status, do.stream, <<>>)

\* C10, amended: the same, except on the success path when the body stream
\* fails while the trace reads it: the caller gets the same response and no
\* error, but meets the read error at once, the bytes before it being gone.
C10_TraceInvisibleUnlessReadFails ==
    (pc = "done" /\ Exchanged) =>
        LET seen == Seen(ret.hasResp, ret.err, CurBody)
            plain == Outcome(Untraced(cfg), req, do.status, do.stream, <<>>)
        IN  IF TraceEnabled(cfg) /\ ExecSuccess(do.status) /\ do.stream.fail
            THEN seen = [plain EXCEPT !.readable = <<>>]
            ELSE seen = plain

\* a traced call with a success status: the caller can read the whole body
C10_Witness ==
    /\ pc = "done" /\ Exchanged /\ Len(logs) = 1
    /\ ret.hasResp /\ do.stream = Stream(<<"[", "1", "]">>, FALSE)
    /\ ReadAll(CurBody).bytes = <<"[", "1", "]">>

====
